---- MODULE Spec2Model ----
(***************************************************************************)
(* A state-machine model of mexgdal.c, the MATLAB gateway to the GDAL      *)
(* raster library.  One invocation of mexFunction is a run from "idle"     *)
(* through the steps of the gateway to "done" (plhs[0] handed to MATLAB)   *)
(* or "error" (mexErrMsgTxt, or a failed mxCalloc, ended the MEX call).    *)
(* GDAL and the MATLAB array library are collaborators: what they answer   *)
(* is chosen nondeterministically where the gateway calls them.            *)
(*                                                                         *)
(* Values of the option fields are modelled after the (int) cast of        *)
(* pr[0], as integers.  All option fields are double arrays with at least  *)
(* one element.  GDALGetRasterXSize/YSize applied to a band handle         *)
(* (lines 308-309) answer the size of that band, as the comment at lines   *)
(* 313-317 expects.                                                        *)
(***************************************************************************)
EXTENDS Integers, Sequences, FiniteSets, TLC

(***************************************************************************)
(* Bounds of the model.                                                    *)
(***************************************************************************)
MaxFields == 2     \* fields of the options structure in the general runs
MaxSize == 2       \* largest width/height of a band, and largest window value
MaxBands == 2      \* bands of a dataset in the metadata runs
MaxOverviews == 2  \* overviews of a band
MaxCalls == 2      \* invocations of the MEX file in one MATLAB session

(***************************************************************************)
(* GDALDataType, as the switch at lines 385-448 names its cases.           *)
(***************************************************************************)
GDT_Unknown == 0
GDT_Byte == 1
GDT_UInt16 == 2
GDT_Int16 == 3
GDT_UInt32 == 4
GDT_Int32 == 5
GDT_Float32 == 6
GDT_Float64 == 7
GDT_TypeCount == 12
GDALDataTypes == 0 .. (GDT_TypeCount - 1)

\* GDAL_VERSION_NUM threshold of line 513
GuessVersion == 1210

VARIABLES
    pc,                 \* position of the current invocation
    calls,              \* invocations started in this process
    nlhs, nrhs,         \* mexFunction arguments
    opts,               \* prhs[1]: the options structure, a sequence of fields
    ifield,             \* loop index of unpack_input_options
    requested_band, requested_overview, gdal_dump,
    mexgdal_verbose,    \* process-wide (a global of the MEX file)
    verbose_in,         \* value of mexgdal_verbose before this invocation began
    xorigin, yorigin, xextend, yextend, xout, yout,
    registered,         \* number of GDALAllRegister() calls in this process
    openHandles,        \* datasets opened by GDALOpen and not yet closed
    GDAL_VERSION_NUM,   \* version of the library this build was compiled against
    hDataset,           \* <<>> (NULL) or <<dataset>>
    hBand,              \* <<>> (NULL) or <<band>>
    RasterXSize, RasterYSize, gdal_type,
    out_type_size,      \* bytes per output sample: 0 until a case of the switch sets it
    err,                \* CPLErr of GDALRasterIO: "none" before the call
    void_buffer, transpose_buffer,
    mxGDALraster,       \* <<>> or <<array>>
    metadata_struct,    \* <<>> or <<record>>
    band_struct,        \* sequence of band entries
    band_number,
    status,             \* return value of record_geotransform
    adfGeoTransform,    \* <<>> (not written) or the six values
    consulted,          \* georeference strategies called, in order
    plhs,               \* <<>> or <<value returned to MATLAB>>
    warnings,           \* mexWarnMsgTxt messages of this invocation
    errmsg,             \* <<>> or <<message of the fatal error>>
    trace               \* collaborator calls of this invocation, in order

argVars == <<nlhs, nrhs, opts>>
optVars == <<requested_band, requested_overview, gdal_dump, mexgdal_verbose,
             xorigin, yorigin, xextend, yextend, xout, yout>>
procVars == <<calls, registered, GDAL_VERSION_NUM, verbose_in>>
bandVars == <<hBand, RasterXSize, RasterYSize, gdal_type>>
fetchVars == <<out_type_size, err, void_buffer, transpose_buffer, mxGDALraster>>
metaVars == <<metadata_struct, band_struct, band_number, status, adfGeoTransform,
             consulted>>
outVars == <<plhs, warnings, errmsg>>
vars == <<pc, argVars, ifield, optVars, procVars, openHandles, hDataset, bandVars,
          fetchVars, metaVars, outVars, trace>>

(***************************************************************************)
(* Inputs.                                                                 *)
(***************************************************************************)
FieldNames == {"band", "overview", "gdal_dump", "verbose", "xorigin", "yorigin",
               "xextend", "yextend", "xout", "yout", "comment"}

\* mxGetM x mxGetN of a field
Shapes == {<<1, 1>>, <<1, 2>>, <<2, 1>>}

Field(name, shape, v) == [name |-> name, m |-> shape[1], n |-> shape[2], pr0 |-> v]

\* (int) pr[0] of a field, by field name, in the general runs
GeneralValues(name) ==
    CASE name \in {"band"} -> {1, 2}
      [] name \in {"gdal_dump", "verbose"} -> {0, 1}
      [] name \in {"overview", "comment"} -> {0}
      [] OTHER -> {1}

GeneralFields ==
    UNION {{Field(name, s, v) : s \in Shapes, v \in GeneralValues(name)} :
           name \in FieldNames}

DistinctNames(rec) == \A i, j \in 1 .. Len(rec) : i # j => rec[i].name # rec[j].name

\* options structures of at most MaxFields fields, any order, any shape
GeneralRecords ==
    UNION {{rec \in [1 .. k -> GeneralFields] : DistinctNames(rec)} : k \in 0 .. MaxFields}

\* a well-formed (1x1) field that is there or not
OptionalField(name, Values) ==
    {<<>>} \cup {<<Field(name, <<1, 1>>, v)>> : v \in Values}

\* every combination of supplied and omitted window fields, well-formed
WindowRecords ==
    {a \o b \o c \o d \o e \o f :
        a \in OptionalField("xorigin", 0 .. MaxSize),
        b \in OptionalField("yorigin", 0 .. MaxSize),
        c \in OptionalField("xextend", -1 .. MaxSize),
        d \in OptionalField("yextend", -1 .. MaxSize),
        e \in OptionalField("xout", -1 .. MaxSize),
        f \in OptionalField("yout", -1 .. MaxSize)}

\* windows inside, across and beyond the band, resampled or not
FetchRecords ==
    {a \o b \o c \o d :
        a \in OptionalField("xorigin", {1, MaxSize + 1}),
        b \in OptionalField("yorigin", {MaxSize + 1}),
        c \in OptionalField("xout", 1 .. MaxSize),
        d \in OptionalField("yout", 1 .. MaxSize)}

\* a metadata request, or none
DumpRecords == OptionalField("gdal_dump", {1})

\* the options of the invocations of a session: verbosity and mode
SessionRecords ==
    {a \o b : a \in OptionalField("verbose", {0, 1}), b \in DumpRecords}

\* The first argument, prhs[0]
FileArgs == {"row string", "not char", "column string"}

Msg(text, a, b) == [text |-> text, a |-> a, b |-> b]

(***************************************************************************)
(* State after the MEX file is loaded: nothing has run.  mexgdal_verbose   *)
(* is a zero-initialised global (line 59).  The MEX file was built against *)
(* one of Versions of the library.                                         *)
(***************************************************************************)
Boot(Versions) ==
    /\ pc = "idle"
    /\ calls = 0
    /\ nlhs = 0 /\ nrhs = 0 /\ opts = <<>>
    /\ ifield = 0
    /\ requested_band = 1 /\ requested_overview = -1 /\ gdal_dump = 0
    /\ mexgdal_verbose = 0 /\ verbose_in = 0
    /\ xorigin = 0 /\ yorigin = 0
    /\ xextend = -1 /\ yextend = -1 /\ xout = -1 /\ yout = -1
    /\ registered = 0
    /\ openHandles = 0
    /\ GDAL_VERSION_NUM \in Versions
    /\ hDataset = <<>> /\ hBand = <<>>
    /\ RasterXSize = 0 /\ RasterYSize = 0 /\ gdal_type = GDT_Unknown
    /\ out_type_size = 0
    /\ err = "none" /\ void_buffer = <<>> /\ transpose_buffer = <<>>
    /\ mxGDALraster = <<>>
    /\ metadata_struct = <<>> /\ band_struct = <<>> /\ band_number = 0
    /\ status = -1 /\ adfGeoTransform = <<>> /\ consulted = <<>>
    /\ plhs = <<>> /\ warnings = <<>> /\ errmsg = <<>>
    /\ trace = <<>>

\* a build older than the world-file guessing of line 513, and one that has it
Init == Boot({GuessVersion - 1, GuessVersion})

\* a current build
InitCurrent == Boot({GuessVersion})

\* mexErrMsgTxt: the MEX call ends here and nothing is returned
Fatal(msg) ==
    /\ pc' = "error"
    /\ errmsg' = <<msg>>

(***************************************************************************)
(* mexFunction, lines 61-275: the locals get their defaults, the argument  *)
(* counts and the file name are checked, and the options structure, when   *)
(* there is one, is handed to unpack_input_options.                        *)
(***************************************************************************)
ArgumentError(l, r, file, isStruct) ==
    IF l # 1 THEN <<Msg("Only one output argument is allowed.", l, 0)>>
    ELSE IF r < 1 THEN <<Msg("At least one input argument is required.", r, 0)>>
    ELSE IF r > 2 THEN <<Msg("No more than two input arguments are allowed.", r, 0)>>
    ELSE IF file = "not char" THEN <<Msg("Input file name must be a string", 0, 0)>>
    ELSE IF file = "column string"
        THEN <<Msg("Input file name must be a row vector, not a column string", 0, 0)>>
    ELSE IF r = 2 /\ ~isStruct
        THEN <<Msg("2nd input argument must be a structure.", 0, 0)>>
    ELSE <<>>

\* mexgdal_verbose left as the previous invocation set it
VerboseDefaultKept(previous) == previous

\* line 217: mexgdal_verbose = 1
VerboseDefault(previous) == 1

Call(Records, limit) ==
    /\ pc \in {"idle", "done", "error"}
    /\ calls < limit
    /\ \E l \in 0 .. 2, r \in 0 .. 3, file \in FileArgs, isStruct \in BOOLEAN,
          rec \in Records :
        LET e == ArgumentError(l, r, file, isStruct)
            o == IF r >= 2 /\ isStruct THEN rec ELSE <<>>
        IN  /\ r < 1 => file = "row string"      \* there is no prhs[0] to look at
            /\ r # 2 => isStruct                 \* nor a prhs[1] that is read
            /\ r < 2 => rec = <<>>
            /\ ~isStruct => rec = <<>>
            /\ nlhs' = l /\ nrhs' = r /\ opts' = o
            /\ errmsg' = e
            /\ pc' = IF e # <<>> THEN "error"
                     ELSE IF r = 2 /\ Len(o) > 0 THEN "unpack" ELSE "register"
    /\ calls' = calls + 1
    /\ verbose_in' = mexgdal_verbose
    /\ ifield' = 0
    /\ requested_band' = 1 /\ requested_overview' = -1 /\ gdal_dump' = 0
    /\ mexgdal_verbose' = VerboseDefault(mexgdal_verbose)
    /\ xorigin' = 0 /\ yorigin' = 0
    /\ xextend' = -1 /\ yextend' = -1 /\ xout' = -1 /\ yout' = -1
    /\ hDataset' = <<>> /\ hBand' = <<>>
    /\ RasterXSize' = 0 /\ RasterYSize' = 0 /\ gdal_type' = GDT_Unknown
    /\ out_type_size' = 0
    /\ err' = "none" /\ void_buffer' = <<>> /\ transpose_buffer' = <<>>
    /\ mxGDALraster' = <<>>
    /\ metadata_struct' = <<>> /\ band_struct' = <<>> /\ band_number' = 0
    /\ status' = -1 /\ adfGeoTransform' = <<>> /\ consulted' = <<>>
    /\ plhs' = <<>> /\ warnings' = <<>>
    /\ trace' = <<>>
    /\ UNCHANGED <<registered, openHandles, GDAL_VERSION_NUM>>

(***************************************************************************)
(* The unpack_* functions, lines 525-701.  Each answers (int) pr[0]; what  *)
(* differs is the shape test and whether a failed test warns or is fatal.  *)
(***************************************************************************)
Unpacked(v, warn, fatal) == [value |-> v, warn |-> warn, fatal |-> fatal]

unpack_gdal_dump(field) ==
    Unpacked(field.pr0,
             IF field.m # 1 THEN <<Msg("unpack_gdal_dump", field.m, field.n)>> ELSE <<>>,
             <<>>)

unpack_band(field) ==
    Unpacked(field.pr0,
             IF (field.m # 1) \/ (field.n # 1)
                 THEN <<Msg("unpack_band", field.m, field.n)>> ELSE <<>>,
             <<>>)

unpack_xextend(field) ==
    Unpacked(field.pr0, <<>>,
             IF (field.m # 1) \/ (field.n # 1)
                 THEN <<Msg("unpack_xExtend", field.m, field.n)>> ELSE <<>>)

unpack_yextend(field) ==
    Unpacked(field.pr0, <<>>,
             IF (field.m # 1) \/ (field.n # 1)
                 THEN <<Msg("unpack_yExtend", field.m, field.n)>> ELSE <<>>)

unpack_xout(field) ==
    Unpacked(field.pr0, <<>>,
             IF (field.m # 1) \/ (field.n # 1)
                 THEN <<Msg("unpack_xout", field.m, field.n)>> ELSE <<>>)

\* unpack_yout with the warning of unpack_band in place of the error
unpack_youtLenient(field) ==
    Unpacked(field.pr0,
             IF (field.m # 1) \/ (field.n # 1)
                 THEN <<Msg("unpack_yout", field.m, field.n)>> ELSE <<>>,
             <<>>)

unpack_yout(field) ==
    Unpacked(field.pr0, <<>>,
             IF (field.m # 1) \/ (field.n # 1)
                 THEN <<Msg("unpack_yout", field.m, field.n)>> ELSE <<>>)

unpack_overview(field) ==
    Unpacked(field.pr0,
             IF field.m # 1 THEN <<Msg("unpack_overview", field.m, field.n)>> ELSE <<>>,
             <<>>)

unpack_verbose(field) ==
    Unpacked(field.pr0,
             IF field.m # 1 THEN <<Msg("unpack_verbose", field.m, field.n)>> ELSE <<>>,
             <<>>)

\* the unpack function the strcmp chain of lines 1152-1190 calls for a name
UnpackerOf(field) ==
    CASE field.name = "band" -> unpack_band(field)
      [] field.name = "overview" -> unpack_overview(field)
      [] field.name = "gdal_dump" -> unpack_gdal_dump(field)
      [] field.name = "verbose" -> unpack_verbose(field)
      [] field.name = "xorigin" -> unpack_band(field)
      [] field.name = "yorigin" -> unpack_band(field)
      [] field.name = "xextend" -> unpack_xextend(field)
      [] field.name = "yextend" -> unpack_yextend(field)
      [] field.name = "xout" -> unpack_xout(field)
      [] field.name = "yout" -> unpack_yout(field)
      [] OTHER -> Unpacked(0, <<>>, <<>>)

\* the target of the assignment: the old value unless the name is this one
Assigned(old, name, field, u) == IF field.name = name THEN u.value ELSE old

(***************************************************************************)
(* One iteration of the loop of unpack_input_options, lines 1139-1191.     *)
(* A fatal shape error leaves the loop, and the call, at once.             *)
(***************************************************************************)
UnpackField ==
    /\ pc = "unpack"
    /\ ifield < Len(opts)
    /\ LET field == opts[ifield + 1]
           u == UnpackerOf(field)
       IN  IF u.fatal # <<>>
           THEN /\ Fatal(u.fatal[1])
                /\ UNCHANGED <<ifield, optVars, warnings>>
           ELSE /\ requested_band' = Assigned(requested_band, "band", field, u)
                /\ requested_overview' = Assigned(requested_overview, "overview", field, u)
                /\ gdal_dump' = Assigned(gdal_dump, "gdal_dump", field, u)
                /\ mexgdal_verbose' = Assigned(mexgdal_verbose, "verbose", field, u)
                /\ xorigin' = Assigned(xorigin, "xorigin", field, u)
                /\ yorigin' = Assigned(yorigin, "yorigin", field, u)
                /\ xextend' = Assigned(xextend, "xextend", field, u)
                /\ yextend' = Assigned(yextend, "yextend", field, u)
                /\ xout' = Assigned(xout, "xout", field, u)
                /\ yout' = Assigned(yout, "yout", field, u)
                /\ warnings' = warnings \o u.warn
                /\ ifield' = ifield + 1
                /\ pc' = IF ifield + 1 < Len(opts) THEN "unpack" ELSE "register"
                /\ UNCHANGED errmsg
    /\ UNCHANGED <<argVars, procVars, openHandles, hDataset, bandVars, fetchVars,
                   metaVars, plhs, trace>>

(***************************************************************************)
(* The raster sources GDAL can open.  A band knows its size, type, no-data *)
(* value and overviews; an overview is itself a band.                      *)
(***************************************************************************)
OverviewOf(w, h, t, nd, novr, i) ==
    [XSize |-> w * 2 ^ (novr - i), YSize |-> h * 2 ^ (novr - i), DataType |-> t,
     NoDataValue |-> nd, Overviews |-> <<>>]

\* a band of w x h cells at its coarsest overview, with novr overviews
BandOf(w, h, t, nd, novr) ==
    [XSize |-> w * 2 ^ novr, YSize |-> h * 2 ^ novr, DataType |-> t,
     NoDataValue |-> nd,
     Overviews |-> [i \in 1 .. novr |-> OverviewOf(w, h, t, nd, novr, i)]]

DatasetOf(bands) ==
    [RasterXSize |-> IF bands = <<>> THEN 0 ELSE bands[1].XSize,
     RasterYSize |-> IF bands = <<>> THEN 0 ELSE bands[1].YSize,
     ProjectionRef |-> "",
     Bands |-> bands]

\* one band of every native type and every size up to MaxSize
FetchDatasets ==
    {DatasetOf(<<BandOf(w, h, t, 0, 0)>>) :
        w \in 1 .. MaxSize, h \in 1 .. MaxSize, t \in GDALDataTypes}

\* one byte band of every size up to MaxSize
PlanDatasets ==
    {DatasetOf(<<BandOf(w, h, GDT_Byte, 0, 0)>>) : w \in 1 .. MaxSize, h \in 1 .. MaxSize}

\* bands that differ in width, height, type, no-data value and overviews
DumpBands ==
    {BandOf(w, MaxSize + 1 - w, IF w % 2 = 1 THEN GDT_Byte ELSE GDT_Int16, -w, novr) :
        w \in 1 .. MaxSize, novr \in 0 .. MaxOverviews}

DumpDatasets ==
    {DatasetOf(bands) : bands \in UNION {[1 .. k -> DumpBands] : k \in 0 .. MaxBands}}

\* a byte band with one overview; an Int16 band followed by a complex one
GeneralDatasets ==
    {DatasetOf(<<BandOf(2, 1, GDT_Byte, 0, 1)>>),
     DatasetOf(<<BandOf(1, 2, GDT_Int16, -1, 0), BandOf(1, 1, GDT_Float64 + 1, 0, 0)>>)}

\* a byte band, a Float64 band and a complex band, one cell each
SessionDatasets ==
    {DatasetOf(<<BandOf(1, 1, t, 0, 0)>>) : t \in {GDT_Byte, GDT_Float64, GDT_Float64 + 1}}

\* GDALGetRasterBand: NULL for a band number the dataset does not have
GDALGetRasterBand(ds, b) ==
    IF b \in 1 .. Len(ds.Bands) THEN <<ds.Bands[b]>> ELSE <<>>

\* GDALGetOverview: NULL for a NULL band or an overview the band does not have
GDALGetOverview(hb, k) ==
    IF hb = <<>> THEN <<>>
    ELSE IF k \in 0 .. (Len(hb[1].Overviews) - 1) THEN <<hb[1].Overviews[k + 1]>>
    ELSE <<>>

\* the getters answer 0 / GDT_Unknown for a NULL handle
XSizeOf(hb) == IF hb = <<>> THEN 0 ELSE hb[1].XSize
YSizeOf(hb) == IF hb = <<>> THEN 0 ELSE hb[1].YSize
DataTypeOf(hb) == IF hb = <<>> THEN GDT_Unknown ELSE hb[1].DataType

GDALGetDataTypeName(t) ==
    <<"Unknown", "Byte", "UInt16", "Int16", "UInt32", "Int32", "Float32", "Float64",
      "CInt16", "CInt32", "CFloat32", "CFloat64">>[t + 1]

\* the drivers GDALAllRegister registers, in registry order
DriverRegistry ==
    <<[DriverShortName |-> "GTiff", DriverLongName |-> "GeoTIFF"],
      [DriverShortName |-> "PNG", DriverLongName |-> "Portable Network Graphics"]>>

GDALGetDriverCount(nRegistered) == IF nRegistered > 0 THEN Len(DriverRegistry) ELSE 0

(***************************************************************************)
(* mexFunction, line 277.                                                  *)
(***************************************************************************)
\* registration behind a once-only guard
GDALAllRegisterGuarded ==
    /\ pc = "register"
    /\ registered' = IF registered = 0 THEN 1 ELSE registered
    /\ trace' = IF registered = 0 THEN Append(trace, "GDALAllRegister") ELSE trace
    /\ pc' = "dispatch"
    /\ UNCHANGED <<argVars, ifield, optVars, calls, GDAL_VERSION_NUM, verbose_in,
                   openHandles, hDataset, bandVars, fetchVars, metaVars, outVars>>

GDALAllRegister ==
    /\ pc = "register"
    /\ registered' = registered + 1
    /\ trace' = Append(trace, "GDALAllRegister")
    /\ pc' = "dispatch"
    /\ UNCHANGED <<argVars, ifield, optVars, calls, GDAL_VERSION_NUM, verbose_in,
                   openHandles, hDataset, bandVars, fetchVars, metaVars, outVars>>

\* the test of line 283 inverted
DumpRequestedInverted(dump) == dump = 0

\* line 283: if (gdal_dump)
DumpRequested(dump) == dump # 0

(***************************************************************************)
(* mexFunction, lines 288-295: pixel mode opens the file.                  *)
(***************************************************************************)
OpenDataset(Datasets) ==
    /\ pc = "dispatch"
    /\ ~DumpRequested(gdal_dump)
    /\ trace' = Append(trace, "GDALOpen")
    /\ \E h \in {<<>>} \cup {<<d>> : d \in Datasets} :
        /\ hDataset' = h
        /\ IF h = <<>>
           THEN /\ Fatal(Msg("Unable to open", 0, 0))
                /\ UNCHANGED openHandles
           ELSE /\ openHandles' = openHandles + 1
                /\ pc' = "plan"
                /\ UNCHANGED errmsg
    /\ UNCHANGED <<argVars, ifield, optVars, procVars, bandVars, fetchVars, metaVars,
                   plhs, warnings>>

(***************************************************************************)
(* mexFunction, lines 297-344: the band (or its overview) is looked up and *)
(* the window is resolved against its size.                                *)
(***************************************************************************)
\* lines 300-303
SelectBand(ds, band, overview) ==
    IF overview >= 0 THEN GDALGetOverview(GDALGetRasterBand(ds, band), overview)
    ELSE GDALGetRasterBand(ds, band)

\* the extent with 0 as the value that stands for "not supplied"
ResolveExtentZeroSentinel(extend, rasterSize) == IF extend = 0 THEN rasterSize ELSE extend

\* lines 318-324
ResolveExtent(extend, rasterSize) == IF extend = -1 THEN rasterSize ELSE extend

\* the default output size without the origin subtracted
ResolveOutWholeExtent(out, extend, origin) == IF out = -1 THEN extend ELSE out

\* lines 332-337
ResolveOut(out, extend, origin) == IF out = -1 THEN extend - origin ELSE out

PlanWindow ==
    /\ pc = "plan"
    /\ LET hb == SelectBand(hDataset[1], requested_band, requested_overview)
           xe == ResolveExtent(xextend, XSizeOf(hb))
           ye == ResolveExtent(yextend, YSizeOf(hb))
       IN  /\ hBand' = hb
           /\ RasterXSize' = XSizeOf(hb)
           /\ RasterYSize' = YSizeOf(hb)
           /\ xextend' = xe
           /\ yextend' = ye
           /\ xout' = ResolveOut(xout, xe, xorigin)
           /\ yout' = ResolveOut(yout, ye, yorigin)
           /\ gdal_type' = DataTypeOf(hb)
    /\ pc' = "fetch"
    /\ UNCHANGED <<argVars, ifield, requested_band, requested_overview, gdal_dump,
                   mexgdal_verbose, xorigin, yorigin, procVars, openHandles, hDataset,
                   fetchVars, metaVars, outVars, trace>>

(***************************************************************************)
(* mexFunction, lines 385-448: the switch on the native pixel type.        *)
(***************************************************************************)
\* the switch without its "case GDT_Int32:" label
SwitchCaseWithoutInt32(t) ==
    CASE t = GDT_Byte -> "GDT_Byte"
      [] t \in {GDT_UInt16, GDT_Int16, GDT_UInt32, GDT_Float32, GDT_Float64}
            -> "GDT_Float64"
      [] OTHER -> "default"

SwitchCase(t) ==
    CASE t = GDT_Byte -> "GDT_Byte"
      [] t \in {GDT_UInt16, GDT_Int16, GDT_UInt32, GDT_Int32, GDT_Float32, GDT_Float64}
            -> "GDT_Float64"
      [] OTHER -> "default"

\* GDALGetDataTypeSize(type) / 8, lines 387 and 420
OutTypeSize(case) == IF case = "GDT_Byte" THEN 1 ELSE 8

\* mxCalloc(n, size): zero-filled, cells 0 .. n-1 kept at 1 .. n
Zeros(n) == [k \in 1 .. n |-> 0]

\* what the decoder can put into a buffer of n samples
Pixels == {0, 1}
AllBuffers(n) == [1 .. n -> Pixels]
RampBuffers(n) == {[k \in 1 .. n |-> (s + k) % 2] : s \in Pixels}
BuffersOf(contents, n) == IF contents = "all" THEN AllBuffers(n) ELSE RampBuffers(n)

(***************************************************************************)
(* GDALRasterIO, as called at lines 391-395 and 424-426.  A window or a    *)
(* buffer size below 1 is skipped (CE_None, nothing written); a window     *)
(* outside the band is refused (CE_Failure); a read of a good window can   *)
(* still fail.  A failed read leaves the zero-filled buffer as it was.     *)
(***************************************************************************)
WindowProper(xe, ye, xo, yo) == xe >= 1 /\ ye >= 1 /\ xo >= 1 /\ yo >= 1

WindowInRange(hb, xoff, yoff, xe, ye) ==
    /\ xoff >= 0 /\ yoff >= 0
    /\ xoff + xe <= XSizeOf(hb)
    /\ yoff + ye <= YSizeOf(hb)

GDALRasterIO(hb, xoff, yoff, xe, ye, xo, yo, contents) ==
    IF ~WindowProper(xe, ye, xo, yo)
        THEN {[err |-> "CE_None", data |-> Zeros(xo * yo)]}
    ELSE IF ~WindowInRange(hb, xoff, yoff, xe, ye)
        THEN {[err |-> "CE_Failure", data |-> Zeros(xo * yo)]}
    ELSE {[err |-> "CE_None", data |-> c] : c \in BuffersOf(contents, xo * yo)}
         \cup {[err |-> "CE_Failure", data |-> Zeros(xo * yo)]}

(***************************************************************************)
(* The transposition loops, lines 400-406 and 431-437.                     *)
(***************************************************************************)
\* line 402 / 433
Index(i, j, xo, yo) == i * xo + j

\* t_index computed like index: the copy does not transpose
TIndexRowMajor(i, j, xo, yo) == i * xo + j

\* line 403 / 434
TIndex(i, j, xo, yo) == j * yo + i

\* the (index, t_index) pairs of the iterations, in loop order: i outer, j inner
LoopWrites(xo, yo) ==
    IF xo <= 0 \/ yo <= 0 THEN <<>>
    ELSE [k \in 1 .. (xo * yo) |->
            LET i == (k - 1) \div xo
                j == (k - 1) % xo
            IN  <<Index(i, j, xo, yo), TIndex(i, j, xo, yo)>>]

RECURSIVE ApplyWrites(_, _, _, _)
ApplyWrites(tbuf, buf, writes, k) ==
    IF k > Len(writes) THEN tbuf
    ELSE ApplyWrites([tbuf EXCEPT ![writes[k][2] + 1] = buf[writes[k][1] + 1]],
                     buf, writes, k + 1)

\* transpose_buffer after the loops, from the zero-filled allocation
Transpose(buf, xo, yo) == ApplyWrites(Zeros(xo * yo), buf, LoopWrites(xo, yo), 1)

\* mxCreateNumericArray(2, rasterDims, class, mxREAL), lines 408-410 / 439-441
mxCreateNumericArray(rows, cols, class) ==
    [class |-> class, dims |-> <<rows, cols>>, data |-> Zeros(rows * cols)]

(***************************************************************************)
(* One case of the switch: allocate, read, transpose, create the array.    *)
(* mxCalloc and mxCreateNumericArray end the MEX call when the size, cast  *)
(* to an unsigned size, cannot be allocated.                               *)
(***************************************************************************)
ReadAndTranspose(case, class, contents) ==
    /\ out_type_size' = OutTypeSize(case)
    /\ IF xout * yout < 0
       THEN /\ Fatal(Msg("Out of memory", xout, yout))
            /\ trace' = Append(trace, "mxCalloc")
            /\ UNCHANGED <<err, void_buffer, transpose_buffer, mxGDALraster>>
       ELSE \E r \in GDALRasterIO(hBand, xorigin, yorigin, xextend, yextend, xout, yout,
                                  contents) :
               /\ err' = r.err
               /\ void_buffer' = r.data
               /\ transpose_buffer' = Transpose(r.data, xout, yout)
               /\ trace' = trace \o <<"mxCalloc", "GDALRasterIO">>
               /\ IF xout < 0 \/ yout < 0
                  THEN /\ Fatal(Msg("Out of memory", xout, yout))
                       /\ UNCHANGED mxGDALraster
                  ELSE /\ mxGDALraster' = <<mxCreateNumericArray(yout, xout, class)>>
                       /\ pc' = "copy"
                       /\ UNCHANGED errmsg

FetchByte(contents) ==
    /\ pc = "fetch"
    /\ SwitchCase(gdal_type) = "GDT_Byte"
    /\ ReadAndTranspose("GDT_Byte", "mxUINT8_CLASS", contents)
    /\ UNCHANGED <<argVars, ifield, optVars, procVars, openHandles, hDataset, bandVars,
                   metaVars, plhs, warnings>>

FetchFloat64(contents) ==
    /\ pc = "fetch"
    /\ SwitchCase(gdal_type) = "GDT_Float64"
    /\ ReadAndTranspose("GDT_Float64", "mxDOUBLE_CLASS", contents)
    /\ UNCHANGED <<argVars, ifield, optVars, procVars, openHandles, hDataset, bandVars,
                   metaVars, plhs, warnings>>

\* lines 444-447
FetchUnhandled ==
    /\ pc = "fetch"
    /\ SwitchCase(gdal_type) = "default"
    /\ Fatal(Msg("Unhandled GDALDataType", gdal_type, 0))
    /\ UNCHANGED <<argVars, ifield, optVars, procVars, openHandles, hDataset, bandVars,
                   fetchVars, metaVars, plhs, warnings, trace>>

(***************************************************************************)
(* mexFunction, lines 450-467: the transposed samples are copied into the  *)
(* MATLAB array, which is returned; the dataset is closed.  err is not     *)
(* looked at.                                                              *)
(***************************************************************************)
CopyOut ==
    /\ pc = "copy"
    /\ mxGDALraster' = <<[mxGDALraster[1] EXCEPT !.data = transpose_buffer]>>
    /\ plhs' = mxGDALraster'
    /\ openHandles' = openHandles - 1
    /\ trace' = Append(trace, "GDALClose")
    /\ pc' = "done"
    /\ UNCHANGED <<argVars, ifield, optVars, procVars, hDataset, bandVars,
                   out_type_size, err, void_buffer, transpose_buffer, metaVars,
                   warnings, errmsg>>

(***************************************************************************)
(* populate_metadata_struct, lines 755-893: the file is opened, the        *)
(* metadata structure is created with every field unset, and the driver    *)
(* list and the projection are recorded.  A field of a MATLAB structure is *)
(* <<>> while unset and <<value>> once mxSetField has set it.              *)
(***************************************************************************)
EmptyMetadata ==
    [ProjectionRef |-> <<>>, GeoTransform |-> <<>>, DriverShortName |-> <<>>,
     DriverLongName |-> <<>>, RasterXSize |-> <<>>, RasterYSize |-> <<>>,
     RasterCount |-> <<>>, Driver |-> <<>>, Band |-> <<>>]

\* lines 875-886
DriverStruct(driverCount) ==
    [j \in 1 .. driverCount |->
        [DriverLongName |-> <<DriverRegistry[j].DriverLongName>>,
         DriverShortName |-> <<DriverRegistry[j].DriverShortName>>]]

MetaOpen(Datasets) ==
    /\ pc = "dispatch"
    /\ DumpRequested(gdal_dump)
    /\ trace' = trace \o <<"populate_metadata_struct", "GDALGetDriverCount", "GDALOpen">>
    /\ \E h \in {<<>>} \cup {<<d>> : d \in Datasets} :
        /\ hDataset' = h
        /\ IF h = <<>>
           THEN /\ Fatal(Msg("Unable to open", 0, 0))
                /\ UNCHANGED <<openHandles, metadata_struct>>
           ELSE /\ openHandles' = openHandles + 1
                /\ metadata_struct' =
                      <<[EmptyMetadata EXCEPT
                            !.Driver = <<DriverStruct(GDALGetDriverCount(registered))>>,
                            !.ProjectionRef = <<h[1].ProjectionRef>>]>>
                /\ pc' = "geo1"
                /\ UNCHANGED errmsg
    /\ UNCHANGED <<argVars, ifield, optVars, procVars, bandVars, fetchVars, band_struct,
                   band_number, status, adfGeoTransform, consulted, plhs, warnings>>

(***************************************************************************)
(* record_geotransform, lines 476-519.  Strategy 1 is the transform stored *)
(* in the dataset, 2 the world file "wld", 3 the world file of the name    *)
(* with ".xxx" appended, 4 GDALReadWorldFile with a NULL extension.  What  *)
(* each finds is the collaborator's answer.                                *)
(***************************************************************************)
\* the transform strategy i reads when it succeeds
GeoAnswer(i) == <<10 * i, 1, 0, 20 * i, 0, -1>>

\* record_geotransform without the return of line 488
AfterStrategyNoReturn(i, found, version) ==
    IF found /\ i > 1 THEN [pc |-> "fields", status |-> 0]
    ELSE IF i < 3 THEN [pc |-> <<"geo1", "geo2", "geo3">>[i + 1], status |-> -1]
    ELSE IF i = 3 /\ version >= GuessVersion THEN [pc |-> "geo4", status |-> -1]
    ELSE [pc |-> "fields", status |-> -1]

\* where record_geotransform goes after strategy i answered
AfterStrategy(i, found, version) ==
    IF found THEN [pc |-> "fields", status |-> 0]
    ELSE IF i < 3 THEN [pc |-> <<"geo1", "geo2", "geo3">>[i + 1], status |-> -1]
    ELSE IF i = 3 /\ version >= GuessVersion THEN [pc |-> "geo4", status |-> -1]
    ELSE [pc |-> "fields", status |-> -1]

Strategy(i) ==
    \E found \in BOOLEAN :
        LET next == AfterStrategy(i, found, GDAL_VERSION_NUM)
        IN  /\ consulted' = Append(consulted, i)
            /\ adfGeoTransform' = IF found THEN GeoAnswer(i) ELSE adfGeoTransform
            /\ status' = next.status
            /\ pc' = next.pc
            /\ UNCHANGED <<argVars, ifield, optVars, procVars, openHandles, hDataset,
                           bandVars, fetchVars, metadata_struct, band_struct,
                           band_number, outVars, trace>>

\* line 482
GDALGetGeoTransform == pc = "geo1" /\ Strategy(1)

\* line 496
ReadWorldFile == pc = "geo2" /\ Strategy(2)

\* lines 503-507
ReadWorldFileAppended == pc = "geo3" /\ Strategy(3)

\* lines 513-517
ReadWorldFileGuess == pc = "geo4" /\ Strategy(4)

(***************************************************************************)
(* populate_metadata_struct, lines 895-956: the transform is recorded or   *)
(* its absence is warned about; the driver, the size and the band count    *)
(* are recorded; the band structure array is created.                      *)
(***************************************************************************)
EmptyBand ==
    [XSize |-> <<>>, YSize |-> <<>>, Overview |-> <<>>, NoDataValue |-> <<>>,
     DataType |-> <<>>]

\* the driver GDAL chose for this dataset
GDALGetDatasetDriver(ds) == DriverRegistry[1]

\* the GeoTransform field with zeros stored when no transform was found
GeoTransformFieldZeroFilled(st, gt, old) ==
    IF st = 0 THEN <<gt>> ELSE <<<<0, 0, 0, 0, 0, 0>>>>

\* lines 902-914: mxSetField(..., "GeoTransform", ...) only when status == 0
GeoTransformField(st, gt, old) == IF st = 0 THEN <<gt>> ELSE old

MetaFields ==
    /\ pc = "fields"
    /\ LET ds == hDataset[1]
           raster_count == Len(ds.Bands)
       IN  /\ metadata_struct' =
                 <<[metadata_struct[1] EXCEPT
                       !.GeoTransform = GeoTransformField(status, adfGeoTransform, @),
                       !.DriverShortName = <<GDALGetDatasetDriver(ds).DriverShortName>>,
                       !.DriverLongName = <<GDALGetDatasetDriver(ds).DriverLongName>>,
                       !.RasterXSize = <<ds.RasterXSize>>,
                       !.RasterYSize = <<ds.RasterYSize>>,
                       !.RasterCount = <<raster_count>>]>>
           /\ warnings' = IF status = 0 THEN warnings
                          ELSE Append(warnings, Msg("No internal georeferencing", 0, 0))
           /\ band_struct' = [k \in 1 .. raster_count |-> EmptyBand]
           /\ band_number' = 1
           /\ pc' = IF 1 <= raster_count THEN "bands" ELSE "close"
    /\ UNCHANGED <<argVars, ifield, optVars, procVars, openHandles, hDataset, bandVars,
                   fetchVars, status, adfGeoTransform, consulted, plhs, errmsg, trace>>

(***************************************************************************)
(* One iteration of the band loop, lines 958-981, with handle_overviews,   *)
(* lines 996-1063.                                                         *)
(***************************************************************************)
\* the element of band_struct the mxSetField calls of the loop write (0-based)
BandElement(band) == 0

\* lines 1047-1060: one element per overview, XSize and YSize set
OverviewStruct(hb) ==
    [i \in 1 .. Len(hb.Overviews) |->
        [XSize |-> <<hb.Overviews[i].XSize>>, YSize |-> <<hb.Overviews[i].YSize>>]]

\* handle_overviews: the Overview field of element 0 is set when there are overviews
handle_overviews(hb, bs) ==
    IF Len(hb.Overviews) > 0
    THEN [bs EXCEPT ![0 + 1].Overview = <<OverviewStruct(hb)>>]
    ELSE bs

BandLoop ==
    /\ pc = "bands"
    /\ band_number <= Len(hDataset[1].Bands)
    /\ LET hb == GDALGetRasterBand(hDataset[1], band_number)[1]
           e == BandElement(band_number) + 1
           bs == [band_struct EXCEPT
                     ![e].XSize = <<hb.XSize>>,
                     ![e].YSize = <<hb.YSize>>,
                     ![e].DataType = <<GDALGetDataTypeName(hb.DataType)>>,
                     ![e].NoDataValue = <<hb.NoDataValue>>]
       IN  /\ band_struct' = handle_overviews(hb, bs)
           /\ hBand' = <<hb>>
           /\ gdal_type' = hb.DataType
    /\ band_number' = band_number + 1
    /\ pc' = IF band_number + 1 <= Len(hDataset[1].Bands) THEN "bands" ELSE "close"
    /\ UNCHANGED <<argVars, ifield, optVars, procVars, openHandles, hDataset,
                   RasterXSize, RasterYSize, fetchVars, metadata_struct, status,
                   adfGeoTransform, consulted, outVars, trace>>

(***************************************************************************)
(* populate_metadata_struct, lines 983-987, and mexFunction, lines         *)
(* 284-285: the band array is stored, the dataset closed, the structure    *)
(* returned.                                                               *)
(***************************************************************************)
MetaClose ==
    /\ pc = "close"
    /\ metadata_struct' = <<[metadata_struct[1] EXCEPT !.Band = <<band_struct>>]>>
    /\ plhs' = metadata_struct'
    /\ openHandles' = openHandles - 1
    /\ trace' = Append(trace, "GDALClose")
    /\ pc' = "done"
    /\ UNCHANGED <<argVars, ifield, optVars, procVars, hDataset, bandVars, fetchVars,
                   band_struct, band_number, status, adfGeoTransform, consulted,
                   warnings, errmsg>>

(***************************************************************************)
(* Specifications.  Spec runs whole invocations on small inputs of every   *)
(* kind; the others run one invocation on the full inputs of one part.     *)
(***************************************************************************)
Next ==
    \/ Call(GeneralRecords, 1)
    \/ UnpackField
    \/ GDALAllRegister
    \/ OpenDataset(GeneralDatasets)
    \/ PlanWindow
    \/ FetchByte("ramps")
    \/ FetchFloat64("ramps")
    \/ FetchUnhandled
    \/ CopyOut
    \/ MetaOpen(GeneralDatasets)
    \/ GDALGetGeoTransform
    \/ ReadWorldFile
    \/ ReadWorldFileAppended
    \/ ReadWorldFileGuess
    \/ MetaFields
    \/ BandLoop
    \/ MetaClose

Spec == Init /\ [][Next]_vars

\* option resolution and window planning
NextPlan ==
    \/ Call(WindowRecords, 1)
    \/ UnpackField
    \/ GDALAllRegister
    \/ OpenDataset(PlanDatasets)
    \/ PlanWindow

SpecPlan == InitCurrent /\ [][NextPlan]_vars

\* pixel mode on every native type and every buffer content
NextFetch ==
    \/ Call(FetchRecords, 1)
    \/ UnpackField
    \/ GDALAllRegister
    \/ OpenDataset(FetchDatasets)
    \/ PlanWindow
    \/ FetchByte("all")
    \/ FetchFloat64("all")
    \/ FetchUnhandled
    \/ CopyOut

SpecFetch == InitCurrent /\ [][NextFetch]_vars

\* dump mode on datasets of several bands and overviews
NextDump ==
    \/ Call(DumpRecords, 1)
    \/ UnpackField
    \/ GDALAllRegister
    \/ MetaOpen(DumpDatasets)
    \/ GDALGetGeoTransform
    \/ ReadWorldFile
    \/ ReadWorldFileAppended
    \/ ReadWorldFileGuess
    \/ MetaFields
    \/ BandLoop
    \/ MetaClose

SpecDump == Init /\ [][NextDump]_vars

\* several invocations in one MATLAB session, in either mode
NextSession ==
    \/ Call(SessionRecords, MaxCalls)
    \/ UnpackField
    \/ GDALAllRegister
    \/ OpenDataset(SessionDatasets)
    \/ PlanWindow
    \/ FetchByte("ramps")
    \/ FetchFloat64("ramps")
    \/ FetchUnhandled
    \/ CopyOut
    \/ MetaOpen(SessionDatasets)
    \/ GDALGetGeoTransform
    \/ ReadWorldFile
    \/ ReadWorldFileAppended
    \/ ReadWorldFileGuess
    \/ MetaFields
    \/ BandLoop
    \/ MetaClose

SpecSession == InitCurrent /\ [][NextSession]_vars

(***************************************************************************)
(* What the caller supplied, read off the options structure.               *)
(***************************************************************************)
Range(seq) == {seq[i] : i \in 1 .. Len(seq)}

Supplied(name) == \E i \in 1 .. Len(opts) : opts[i].name = name

SuppliedValue(name) == opts[CHOOSE i \in 1 .. Len(opts) : opts[i].name = name].pr0

\* the value resolved metadata-only mode or pixel mode
IsMetadata(v) == "RasterCount" \in DOMAIN v
IsArray(v) == "dims" \in DOMAIN v

(***************************************************************************)
(* C1: dump mode and pixel mode exclude each other within an invocation.   *)
(* When gdal_dump is non-zero no buffer is allocated, GDALRasterIO is not  *)
(* called, no array is created, and what is returned is the metadata       *)
(* structure; when gdal_dump is zero populate_metadata_struct is not       *)
(* entered.  No invocation calls both.                                     *)
(***************************************************************************)
C1_DumpExcludesPixel ==
    /\ ~({"GDALRasterIO", "populate_metadata_struct"} \subseteq Range(trace))
    /\ gdal_dump # 0 =>
          /\ "GDALRasterIO" \notin Range(trace)
          /\ "mxCalloc" \notin Range(trace)
          /\ mxGDALraster = <<>> /\ void_buffer = <<>> /\ err = "none"
          /\ pc = "done" => /\ plhs = metadata_struct
                            /\ Len(plhs) = 1
                            /\ IsMetadata(plhs[1])
    /\ gdal_dump = 0 =>
          /\ "populate_metadata_struct" \notin Range(trace)
          /\ metadata_struct = <<>>
          /\ pc = "done" => Len(plhs) = 1 /\ IsArray(plhs[1])

\* a dump has returned its metadata structure
C1_Witness ==
    /\ pc = "done"
    /\ gdal_dump # 0
    /\ "populate_metadata_struct" \in Range(trace)
    /\ Len(plhs) = 1 /\ IsMetadata(plhs[1])

(***************************************************************************)
(* C2: once the switch on the native type has been passed, exactly one of  *)
(* three things has happened.  The byte case (one byte per sample, an      *)
(* mxUINT8 array) was taken if and only if the type is GDT_Byte; the       *)
(* Float64 case (an mxDOUBLE array) if and only if the type is one of      *)
(* UInt16, Int16, UInt32, Int32, Float32, Float64; for any other type the  *)
(* call ended with "Unhandled GDALDataType <type>" and no array exists or  *)
(* is returned.                                                            *)
(***************************************************************************)
PastSwitch == hDataset # <<>> /\ pc \in {"copy", "done", "error"}

WideTypes == {GDT_UInt16, GDT_Int16, GDT_UInt32, GDT_Int32, GDT_Float32, GDT_Float64}

C2_TypeDispatch ==
    (PastSwitch /\ gdal_dump = 0) =>
        /\ (out_type_size = 1) <=> (gdal_type = GDT_Byte)
        /\ (out_type_size = 8) <=> (gdal_type \in WideTypes)
        /\ out_type_size \in {0, 1, 8}
        /\ mxGDALraster # <<>> =>
              mxGDALraster[1].class =
                  IF gdal_type = GDT_Byte THEN "mxUINT8_CLASS" ELSE "mxDOUBLE_CLASS"
        /\ gdal_type \notin ({GDT_Byte} \cup WideTypes) =>
              /\ pc = "error"
              /\ errmsg = <<Msg("Unhandled GDALDataType", gdal_type, 0)>>
              /\ mxGDALraster = <<>> /\ plhs = <<>>
              /\ "GDALRasterIO" \notin Range(trace)
        /\ pc \in {"copy", "done"} => mxGDALraster # <<>>

\* an Int32 band came back as a double array
C2_Witness ==
    /\ pc = "done"
    /\ gdal_type = GDT_Int32
    /\ Len(plhs) = 1 /\ plhs[1].class = "mxDOUBLE_CLASS"

(***************************************************************************)
(* C3: for xout >= 1 and yout >= 1 and any decoded buffer, the array of    *)
(* either case satisfies output[col * yout + row] = decoded[row * xout +   *)
(* col] for all row < yout, col < xout; the loops write every output cell  *)
(* exactly once; the dimensions are (yout, xout); and the same loops run   *)
(* on the output with xout and yout exchanged give the decoded buffer back.*)
(***************************************************************************)
WrittenOnce(xo, yo) ==
    \A t \in 0 .. (xo * yo - 1) :
        Cardinality({k \in 1 .. Len(LoopWrites(xo, yo)) : LoopWrites(xo, yo)[k][2] = t}) = 1

C3_TransposeOf(output) ==
    /\ Len(output) = xout * yout
    /\ \A row \in 0 .. (yout - 1), col \in 0 .. (xout - 1) :
          output[col * yout + row + 1] = void_buffer[row * xout + col + 1]
    /\ WrittenOnce(xout, yout)
    /\ Transpose(output, yout, xout) = void_buffer

C3_Transpose ==
    (gdal_dump = 0 /\ xout >= 1 /\ yout >= 1) =>
        /\ pc = "copy" => /\ C3_TransposeOf(transpose_buffer)
                          /\ mxGDALraster[1].dims = <<yout, xout>>
        /\ pc = "done" => /\ C3_TransposeOf(plhs[1].data)
                          /\ plhs[1].dims = <<yout, xout>>

\* a 2 x 2 window whose transposed samples are in another order than decoded
C3_Witness ==
    /\ pc = "done" /\ gdal_dump = 0
    /\ xout = 2 /\ yout = 2
    /\ plhs[1].data # void_buffer

(***************************************************************************)
(* C4: window planning.  After the window is resolved, xorigin and yorigin *)
(* are the supplied values or 0; xextend is the supplied (non-negative)    *)
(* value or, when omitted, the width of the band; xout is the supplied     *)
(* (non-negative) value or, when omitted, the resolved xextend minus       *)
(* xorigin; likewise for y with the height.  A 500 x 600 band with nothing *)
(* supplied gives {0, 0, 500, 600, 500, 600}; xextend 250 and yextend 300  *)
(* at origin 0 give xout 250 and yout 300.                                 *)
(***************************************************************************)
PlannedField(resolved, name, default) ==
    IF Supplied(name)
    THEN SuppliedValue(name) >= 0 => resolved = SuppliedValue(name)
    ELSE resolved = default

C4_Examples ==
    /\ ResolveExtent(-1, 500) = 500 /\ ResolveExtent(-1, 600) = 600
    /\ ResolveOut(-1, ResolveExtent(-1, 500), 0) = 500
    /\ ResolveOut(-1, ResolveExtent(-1, 600), 0) = 600
    /\ ResolveExtent(250, 500) = 250 /\ ResolveExtent(300, 600) = 300
    /\ ResolveOut(-1, ResolveExtent(250, 500), 0) = 250
    /\ ResolveOut(-1, ResolveExtent(300, 600), 0) = 300

C4_WindowPlanning ==
    /\ C4_Examples
    /\ pc = "fetch" =>
          /\ PlannedField(xorigin, "xorigin", 0)
          /\ PlannedField(yorigin, "yorigin", 0)
          /\ PlannedField(xextend, "xextend", XSizeOf(hBand))
          /\ PlannedField(yextend, "yextend", YSizeOf(hBand))
          /\ PlannedField(xout, "xout", xextend - xorigin)
          /\ PlannedField(yout, "yout", yextend - yorigin)

\* the origin was supplied, the output size was not: it is extent minus origin
C4_Witness ==
    /\ pc = "fetch"
    /\ Supplied("xorigin") /\ SuppliedValue("xorigin") = 1
    /\ Supplied("xextend") /\ SuppliedValue("xextend") = 2
    /\ ~Supplied("xout") /\ xout = 1
    /\ ~Supplied("yextend") /\ ~Supplied("yout") /\ yextend = 2 /\ yout = 2

(***************************************************************************)
(* C5: a dump of a dataset of n bands returns n band entries, and entry k  *)
(* holds the width, height, type name and no-data value of band k.         *)
(***************************************************************************)
DumpReturned == pc = "done" /\ gdal_dump # 0 /\ Len(plhs) = 1

C5_BandEntries ==
    DumpReturned =>
        LET bands == hDataset[1].Bands
            entries == plhs[1].Band[1]
        IN  /\ Len(entries) = Len(bands)
            /\ \A k \in 1 .. Len(bands) :
                  /\ entries[k].XSize = <<bands[k].XSize>>
                  /\ entries[k].YSize = <<bands[k].YSize>>
                  /\ entries[k].DataType = <<GDALGetDataTypeName(bands[k].DataType)>>
                  /\ entries[k].NoDataValue = <<bands[k].NoDataValue>>

(***************************************************************************)
(* C6: in a dump, the Overview field of the entry of band k is set, has    *)
(* one element per overview of band k, and element i holds the width and   *)
(* height of overview i of band k; for a band without overviews the field  *)
(* is set to the empty sequence.                                           *)
(***************************************************************************)
C6_OverviewEntries ==
    DumpReturned =>
        LET bands == hDataset[1].Bands
            entries == plhs[1].Band[1]
        IN  \A k \in 1 .. Len(bands) :
                /\ k <= Len(entries)
                /\ entries[k].Overview =
                      <<[i \in 1 .. Len(bands[k].Overviews) |->
                            [XSize |-> <<bands[k].Overviews[i].XSize>>,
                             YSize |-> <<bands[k].Overviews[i].YSize>>]]>>

(***************************************************************************)
(* C7: the call form [z, atts] = mexgdal(gdalfile) of the header comment   *)
(* is accepted, and a pixel-mode call that returns has built the metadata  *)
(* record next to the pixel array.                                         *)
(***************************************************************************)
C7_ArrayAndMetadata ==
    /\ (nlhs = 2 /\ nrhs = 1 /\ pc = "error") =>
          errmsg[1].text # "Only one output argument is allowed."
    /\ (pc = "done" /\ gdal_dump = 0) =>
          /\ mxGDALraster # <<>>
          /\ metadata_struct # <<>>

(***************************************************************************)
(* C8: record_geotransform consults its strategies in the order 1 (stored  *)
(* transform), 2 ("wld"), 3 (".xxx" then "wld"), 4 (NULL extension, only   *)
(* on a version that has it) and stops at the first that succeeds: while   *)
(* strategy i is about to be called exactly 1 .. i-1 were called and all   *)
(* failed; once it has returned, status is 0 exactly if the last strategy  *)
(* called succeeded, and -1 exactly if all the strategies of this version  *)
(* were called and failed.                                                 *)
(***************************************************************************)
FirstStrategies(n) == [i \in 1 .. n |-> i]

LastStrategy == IF GDAL_VERSION_NUM >= 1210 THEN 4 ELSE 3

C8_StrategyOrder ==
    /\ \E n \in 0 .. LastStrategy : consulted = FirstStrategies(n)
    /\ \A i \in 1 .. 4 :
          pc = <<"geo1", "geo2", "geo3", "geo4">>[i] =>
              consulted = FirstStrategies(i - 1) /\ adfGeoTransform = <<>>
    /\ pc \in {"fields", "bands", "close"} \/ DumpReturned =>
          /\ consulted # <<>>
          /\ status \in {0, -1}
          /\ status = 0 <=> adfGeoTransform # <<>>
          /\ status = 0 => adfGeoTransform = GeoAnswer(consulted[Len(consulted)])
          /\ status = -1 => consulted = FirstStrategies(LastStrategy)

\* the stored transform was missing, the "wld" world file was read, nothing else was tried
C8_Witness ==
    /\ DumpReturned
    /\ consulted = <<1, 2>>
    /\ status = 0
    /\ adfGeoTransform = GeoAnswer(2)

(***************************************************************************)
(* C9: when GDALRasterIO reports an error the invocation fails and returns *)
(* no array; an array is returned only after a read that reported success. *)
(***************************************************************************)
C9_ReadErrorFails ==
    /\ err = "CE_Failure" => plhs = <<>> /\ pc # "done"
    /\ (pc = "done" /\ gdal_dump = 0) => err = "CE_None"

(***************************************************************************)
(* C10: when xextend, yextend, xout or yout is supplied with a shape other *)
(* than 1x1, the invocation never gets past option resolution: it ends in  *)
(* the fatal error of that field, no later field is unpacked, nothing is   *)
(* returned, and GDAL is not called at all (no registration, no open, no   *)
(* read, no metadata), whatever the mode and wherever the field stands.    *)
(***************************************************************************)
StrictFields == {"xextend", "yextend", "xout", "yout"}

BadShape(f) == f.name \in StrictFields /\ (f.m # 1 \/ f.n # 1)

FirstBad ==
    CHOOSE i \in 1 .. Len(opts) :
        BadShape(opts[i]) /\ \A j \in 1 .. (i - 1) : ~BadShape(opts[j])

ShapeError(f) ==
    Msg(CASE f.name = "xextend" -> "unpack_xExtend"
          [] f.name = "yextend" -> "unpack_yExtend"
          [] f.name = "xout" -> "unpack_xout"
          [] f.name = "yout" -> "unpack_yout",
        f.m, f.n)

C10_StrictShapeIsFatal ==
    (\E i \in 1 .. Len(opts) : BadShape(opts[i])) =>
        /\ pc \in {"unpack", "error"}
        /\ ifield < FirstBad
        /\ trace = <<>>
        /\ hDataset = <<>> /\ void_buffer = <<>> /\ metadata_struct = <<>>
        /\ plhs = <<>>
        /\ pc = "error" =>
              \/ errmsg = <<ShapeError(opts[FirstBad])>> /\ ifield = FirstBad - 1
              \/ ifield = 0 /\ errmsg = ArgumentError(nlhs, nrhs, "row string", TRUE)
                 /\ errmsg # <<>>
              \/ ifield = 0 /\ nlhs = 1 /\ nrhs = 2
                 /\ \E file \in FileArgs : errmsg = ArgumentError(1, 2, file, TRUE)
                 /\ errmsg # <<>>

\* a metadata request whose second field, yout, is 1x2 or 2x1
C10_Witness ==
    /\ pc = "error"
    /\ Len(opts) = 2
    /\ opts[1].name = "gdal_dump" /\ gdal_dump = 1
    /\ opts[2].name = "yout" /\ BadShape(opts[2])
    /\ errmsg = <<ShapeError(opts[2])>>

(***************************************************************************)
(* C11: a band, xorigin, yorigin, overview, gdal_dump or verbose field     *)
(* supplied with a shape other than 1x1 is warned about, the call goes on, *)
(* and the option keeps its default (band 1, origin 0, overview -1, dump   *)
(* 0, verbose 1) instead of taking a value from the malformed field.       *)
(***************************************************************************)
LenientFields == {"band", "xorigin", "yorigin", "overview", "gdal_dump", "verbose"}

Malformed(f) == f.name \in LenientFields /\ (f.m # 1 \/ f.n # 1)

ResolvedOption(name) ==
    CASE name = "band" -> requested_band
      [] name = "xorigin" -> xorigin
      [] name = "yorigin" -> yorigin
      [] name = "overview" -> requested_overview
      [] name = "gdal_dump" -> gdal_dump
      [] name = "verbose" -> mexgdal_verbose

DefaultOption(name) ==
    CASE name \in {"band", "verbose"} -> 1
      [] name \in {"xorigin", "yorigin", "gdal_dump"} -> 0
      [] name = "overview" -> -1

C11_LenientKeepsDefault ==
    \A i \in 1 .. Len(opts) :
        (Malformed(opts[i]) /\ ifield >= i) =>
            /\ \E w \in Range(warnings) : w.a = opts[i].m /\ w.b = opts[i].n
            /\ ResolvedOption(opts[i].name) = DefaultOption(opts[i].name)

(***************************************************************************)
(* C12: when record_geotransform reports absence (-1) during a dump the    *)
(* call does not fail: the absence is warned about, the GeoTransform field *)
(* stays unset, and the projection, the driver names, the sizes, the band  *)
(* count, the driver list and the band array are set in the structure that *)
(* is returned.  When it reports success the field holds the six values    *)
(* the successful strategy read, in order.                                 *)
(***************************************************************************)
AbsenceWarning == Msg("No internal georeferencing", 0, 0)

C12_RemainingFieldsSet(m) ==
    /\ m.ProjectionRef = <<hDataset[1].ProjectionRef>>
    /\ m.DriverShortName = <<GDALGetDatasetDriver(hDataset[1]).DriverShortName>>
    /\ m.DriverLongName = <<GDALGetDatasetDriver(hDataset[1]).DriverLongName>>
    /\ m.RasterXSize = <<hDataset[1].RasterXSize>>
    /\ m.RasterYSize = <<hDataset[1].RasterYSize>>
    /\ m.RasterCount = <<Len(hDataset[1].Bands)>>
    /\ m.Driver = <<DriverStruct(Len(DriverRegistry))>>

C12_GeoTransformAbsence ==
    /\ (pc \in {"bands", "close"} \/ DumpReturned) =>
          /\ errmsg = <<>>
          /\ C12_RemainingFieldsSet(metadata_struct[1])
          /\ status = -1 =>
                /\ metadata_struct[1].GeoTransform = <<>>
                /\ Cardinality({k \in 1 .. Len(warnings) : warnings[k] = AbsenceWarning}) = 1
          /\ status = 0 =>
                /\ metadata_struct[1].GeoTransform = <<GeoAnswer(consulted[Len(consulted)])>>
                /\ Len(metadata_struct[1].GeoTransform[1]) = 6
                /\ AbsenceWarning \notin Range(warnings)
    /\ DumpReturned =>
          /\ plhs = metadata_struct
          /\ Len(plhs[1].Band) = 1
          /\ Len(plhs[1].Band[1]) = Len(hDataset[1].Bands)

\* every strategy failed and the dump of a two-band file came back without a transform
C12_Witness ==
    /\ DumpReturned
    /\ status = -1
    /\ consulted = FirstStrategies(LastStrategy)
    /\ plhs[1].GeoTransform = <<>>
    /\ plhs[1].RasterCount = <<2>>
    /\ AbsenceWarning \in Range(warnings)

(***************************************************************************)
(* C13: an invocation that opened a dataset has closed it when control is  *)
(* back with the caller, whether it returned an array, returned metadata   *)
(* or ended in the "Unhandled GDALDataType" error: between invocations no  *)
(* dataset is open.                                                        *)
(***************************************************************************)
Returned == pc \in {"idle", "done", "error"}

C13_ClosedOnReturn == Returned => openHandles = 0

(***************************************************************************)
(* C14: in one process GDALAllRegister is called at most once, however     *)
(* many invocations there are, and it has been called before a dataset is  *)
(* opened or the drivers are counted.                                      *)
(***************************************************************************)
Occurrences(seq, x) == Cardinality({k \in 1 .. Len(seq) : seq[k] = x})

RegisteredFirst ==
    (Range(trace) \cap {"GDALOpen", "GDALGetDriverCount"} # {}) =>
        /\ registered >= 1
        /\ trace[1] = "GDALAllRegister"

C14_RegisteredAtMostOnce ==
    /\ registered <= 1
    /\ RegisteredFirst

(***************************************************************************)
(* C14 as amended: every invocation that gets past its argument and option *)
(* checks calls GDALAllRegister exactly once, before it opens a dataset or *)
(* counts the drivers; nothing guards the call, so each such invocation    *)
(* adds one to the number of registrations of the process, and nothing     *)
(* else changes that number.                                               *)
(***************************************************************************)
PastRegistration == pc \notin {"idle", "unpack", "register", "error"} \/ trace # <<>>

C14_RegisteredEachCall ==
    /\ [](/\ RegisteredFirst
          /\ registered <= calls
          /\ Occurrences(trace, "GDALAllRegister") = IF PastRegistration THEN 1 ELSE 0
          /\ PastRegistration => registered >= 1)
    /\ [][registered' = IF pc = "register" THEN registered + 1 ELSE registered]_vars

\* the second invocation of the session has registered the drivers again
C14_Witness ==
    /\ calls = 2
    /\ registered = 2
    /\ "GDALOpen" \in Range(trace)
    /\ trace[1] = "GDALAllRegister"

(***************************************************************************)
(* C15: the window handed to GDALRasterIO lies inside the band: xorigin +  *)
(* xextend <= width and yorigin + yextend <= height.  In particular so     *)
(* when xextend and yextend were left out and the origin supplied lies     *)
(* inside the band.                                                        *)
(***************************************************************************)
ReadCalled == "GDALRasterIO" \in Range(trace)

OriginInBand ==
    /\ xorigin \in 0 .. (XSizeOf(hBand) - 1)
    /\ yorigin \in 0 .. (YSizeOf(hBand) - 1)

WindowInBand ==
    /\ xorigin + xextend <= XSizeOf(hBand)
    /\ yorigin + yextend <= YSizeOf(hBand)

C15_WindowInBand ==
    /\ (ReadCalled /\ ~Supplied("xextend") /\ ~Supplied("yextend") /\ OriginInBand) =>
          WindowInBand
    /\ ReadCalled => WindowInBand

(***************************************************************************)
(* C16: when the buffers are allocated, xorigin, yorigin, xextend,         *)
(* yextend, xout and yout are all non-negative and the extents and output  *)
(* sizes are at least 1, whatever non-negative options were supplied and   *)
(* whatever the size of the band.                                          *)
(***************************************************************************)
Allocating == "mxCalloc" \in Range(trace)

SuppliedNonNegative == \A i \in 1 .. Len(opts) : opts[i].pr0 >= 0

C16_AllocationSizes ==
    (Allocating /\ SuppliedNonNegative) =>
        /\ xorigin >= 0 /\ yorigin >= 0
        /\ xextend >= 1 /\ yextend >= 1
        /\ xout >= 1 /\ yout >= 1

(***************************************************************************)
(* C17: the verbosity in effect during an invocation is that of its own    *)
(* verbose field, from the moment the field is unpacked, and 1 before that *)
(* and when there is no such field or no options structure; it is never    *)
(* what an earlier invocation left in the process-wide mexgdal_verbose.    *)
(***************************************************************************)
VerboseUnpacked == \E i \in 1 .. ifield : opts[i].name = "verbose"

Effective(name, default) ==
    IF Supplied(name) /\ SuppliedValue(name) # -1 THEN SuppliedValue(name) ELSE default

C18_SentinelInBand ==
    pc = "fetch" =>
        /\ xextend = Effective("xextend", XSizeOf(hBand))
        /\ yextend = Effective("yextend", YSizeOf(hBand))
        /\ xout = Effective("xout", xextend - xorigin)
        /\ yout = Effective("yout", yextend - yorigin)

\* xextend and yout supplied as -1, yextend supplied as 0: the band's width, 0, and the default
C18_Witness ==
    /\ pc = "fetch"
    /\ Supplied("xextend") /\ SuppliedValue("xextend") = -1
    /\ Supplied("yout") /\ SuppliedValue("yout") = -1
    /\ Supplied("yextend") /\ SuppliedValue("yextend") = 0
    /\ xextend = XSizeOf(hBand) /\ XSizeOf(hBand) = 2
    /\ yextend = 0
    /\ yout = yextend - yorigin
====
